---- MODULE Spec2Model ----
(***************************************************************************)
(* Model of FoodCode/visualizer.py: class Visualizer (constructor, draw,   *)
(* show, is_quit, video_delay) together with the parts of its environment  *)
(* that the methods act on: the cv2 window system, the file system behind  *)
(* cv2.imwrite, the keyboard poll of cv2.waitKey, time.sleep, the image    *)
(* buffers handed to draw, and the streamer queried by video_delay.        *)
(***************************************************************************)
EXTENDS Integers, Sequences, FiniteSets, TLC

(* ------------------------------ bounds --------------------------------- *)
\* largest channel value of a pixel
MaxPix == 1
\* largest frame rate a streamer reports
MaxFps == 2
\* elapsed_time ranges over k/ElapsedDen, k \in -1..MaxElapsed
MaxElapsed == 3
ElapsedDen == 2
\* largest delay passed to the constructor
MaxDelay == 2
\* cap on the time units counted while waitKey blocks without a timeout
MaxWait == 3

(* --------------------------- optional values --------------------------- *)
\* Python's None / a present value, as a sequence of length 0 / 1
None == <<>>
Some(x) == <<x>>

(* ----------------------------- input domains --------------------------- *)
WindowNameArgs == {None, Some("Demo")}
DelayArgs == {None} \cup {Some(d) : d \in 0..MaxDelay}
\* "" is a str that is falsy in Python; "out.png" is a writable path
OutputArgs == {None, Some(""), Some("out.png")}
Paths == {"out.png"}
\* origin of the primary monitor reported by screeninfo
Monitors == {[x |-> 1920, y |-> 0]}
\* one-pixel images, three channels
Images == {<<p, 0, MaxPix - p>> : p \in 0..MaxPix}
\* what a file left by an earlier run holds
OldImage == <<MaxPix, MaxPix, MaxPix>>
\* an annotation is reduced to the value the drawer paints
Annotations == {0, MaxPix}
\* str(streamer.get_type()) as a sequence of characters
VIDEO == <<"V", "I", "D", "E", "O">>
MediaTypePrefix == <<"M", "e", "d", "i", "a", "T", "y", "p", "e", ".">>
VideoTypes == { MediaTypePrefix \o VIDEO }
NonVideoTypes ==
    { MediaTypePrefix \o <<"I", "M", "A", "G", "E">>,
      MediaTypePrefix \o <<"C", "A", "M", "E", "R", "A">>,
      <<"v", "i", "d", "e", "o">> }
StreamerTypes == VideoTypes \cup NonVideoTypes
FpsValues == 0..MaxFps
ElapsedTimes == {[n |-> k, d |-> ElapsedDen] : k \in -1..MaxElapsed}
\* key codes a key press can deliver to waitKey: q, Q, Esc, q with modifier bits
PressedKeys == {113, 81, 27, 1048689}
NoKey == -1

(* ------------------------------- state --------------------------------- *)
VARIABLES
    args,           \* the constructor's arguments and the monitor it finds
    pc,             \* "new" before __init__, "idle" between calls, "waitKey" inside is_quit
    window_name,    \* self.window_name
    no_show,        \* self.no_show
    delay,          \* self.delay
    output,         \* self.output
    windows,        \* names of the windows that exist in the cv2 window system
    windowCalls,    \* every cv2 window call made so far (namedWindow, resizeWindow, moveWindow, imshow)
    files,          \* file system: path -> None or Some(image)
    heap,           \* arrays of the last call: "in" the one passed in, "out" the one it allocated
    call,           \* the last call: [op, args]
    effects,        \* library calls made by the last call
    sleeps,         \* durations passed to time.sleep by the last call
    ret,            \* value returned by the last call (None, Some(v))
    raised,         \* exception propagated by the last call ("" when none)
    waited          \* time units the last call spent inside cv2.waitKey

vars == <<args, pc, window_name, no_show, delay, output, windows, windowCalls,
          files, heap, call, effects, sleeps, ret, raised, waited>>

config == <<window_name, no_show, delay, output>>

(* ------------------------- Python / library helpers -------------------- *)
\* bool(x) of an Optional[str]: None and "" are falsy
Truthy(opt) == opt # None /\ opt[1] # ""

\* `sub in s` on str
Contains(sub, s) ==
    \E i \in 0..(Len(s) - Len(sub)) : SubSeq(s, i + 1, i + Len(sub)) = sub

\* exact fractions n/d stand for Python's float values
Rat(n_, d_) == [n |-> n_, d |-> d_]
RatLess(a, b) == a.n * b.d < b.n * a.d
RatSub(a, b) == Rat(a.n * b.d - b.n * a.d, a.d * b.d)

\* ord("q")
ord_q == 113

\* the geometry the constructor gives the window
WINDOW_WIDTH == 960
WINDOW_HEIGHT == 720
WINDOW_DX == 1200
WINDOW_DY == 300

WinCall(fn_, name_, a_, b_) == [fn |-> fn_, name |-> name_, a |-> a_, b |-> b_]

\* cv2.cvtColor(image, cv2.COLOR_RGB2BGR): a new array with the channel order reversed
cvtColor_RGB2BGR(image) == <<image[3], image[2], image[1]>>

\* self.shape_drawer.draw(image, annotation, labels=[]): paints onto the array it is given
ShapeDrawer_draw(image, annotation) == [image EXCEPT ![2] = annotation]

draw_target_in_place == "in"

\* the buffer that draw's local `image` names after line 130: the array cvtColor allocated
draw_target == "out"

imwrite_keep_existing(fs, path, image) ==
    IF fs[path] = None THEN [fs EXCEPT ![path] = Some(image)] ELSE fs

\* cv2.imwrite(path, image): the file is replaced by the image
imwrite(fs, path, image) == [fs EXCEPT ![path] = Some(image)]

\* a call that is handed no array and allocates none
NoArrays == [b \in {"in", "out"} |-> None]

(* ------------------------------ __init__ ------------------------------- *)
\* self.window_name = "Window" if window_name is None else window_name
init_window_name(arg) == IF arg = None THEN "Window" ELSE arg[1]

init_delay_zero(arg) == IF arg = None THEN 0 ELSE arg[1]

\* self.delay = delay; if delay is None: self.delay = 1
init_delay(arg) == IF arg = None THEN 1 ELSE arg[1]

\* the three cv2 calls at the end of the constructor, made whatever no_show is
init_window_calls(name, screen) ==
    { WinCall("namedWindow", name, 0, 0),
      WinCall("resizeWindow", name, WINDOW_WIDTH, WINDOW_HEIGHT),
      WinCall("moveWindow", name, screen.x + WINDOW_DX, screen.y + WINDOW_DY) }

Init ==
    /\ args \in [window_name : WindowNameArgs, no_show : BOOLEAN,
                 delay : DelayArgs, output : OutputArgs, screen : Monitors]
    /\ pc = "new"
    /\ window_name = ""
    /\ no_show = FALSE
    /\ delay = 0
    /\ output = None
    /\ windows = {}
    /\ windowCalls = {}
    /\ files \in [Paths -> {None, Some(OldImage)}]
    /\ heap = NoArrays
    /\ call = [op |-> "none", args |-> <<>>]
    /\ effects = {}
    /\ sleeps = <<>>
    /\ ret = None
    /\ raised = ""
    /\ waited = 0

Visualizer_init ==
    /\ pc = "new"
    /\ pc' = "idle"
    /\ window_name' = init_window_name(args.window_name)
    /\ delay' = init_delay(args.delay)
    /\ no_show' = args.no_show
    /\ output' = args.output
    /\ windowCalls' = windowCalls \cup init_window_calls(window_name', args.screen)
    /\ windows' = windows \cup {c.name : c \in init_window_calls(window_name', args.screen)}
    /\ call' = [op |-> "__init__", args |-> <<>>]
    /\ effects' = {c.fn : c \in init_window_calls(window_name', args.screen)}
    /\ UNCHANGED <<args, files, heap, sleeps, ret, raised, waited>>

(* -------------------------------- draw --------------------------------- *)
draw(image, annotation) ==
    /\ pc = "idle"
    /\ LET \* the caller's array, and the array cvtColor returns
           h1 == [b \in {"in", "out"} |->
                     IF b = "in" THEN Some(image) ELSE Some(cvtColor_RGB2BGR(image))]
           \* the drawer paints onto the array that `image` now names
           h2 == [h1 EXCEPT ![draw_target] =
                      Some(ShapeDrawer_draw(cvtColor_RGB2BGR(image), annotation))]
       IN /\ heap' = h2
          /\ ret' = Some(draw_target)
    /\ call' = [op |-> "draw", args |-> <<image, annotation>>]
    /\ effects' = {}
    /\ sleeps' = <<>>
    /\ raised' = ""
    /\ waited' = 0
    /\ UNCHANGED <<args, pc, config, windows, windowCalls, files>>

(* -------------------------------- show --------------------------------- *)
show_window_default(name) == "Window"

\* the name show passes to cv2.imshow
show_window(name) == name

\* line 141 and line 143: imwrite sits inside the `if not self.no_show` block
show_displays(no_show_) == ~no_show_
show_writes_unnested(no_show_, output_) == Truthy(output_)
show_writes(no_show_, output_) == ~no_show_ /\ Truthy(output_)

show(image) ==
    /\ pc = "idle"
    /\ call' = [op |-> "show", args |-> <<image>>]
    /\ IF show_displays(no_show)
          THEN /\ windowCalls' = windowCalls \cup {WinCall("imshow", show_window(window_name), 0, 0)}
               \* imshow on a name with no window creates that window
               /\ windows' = windows \cup {show_window(window_name)}
          ELSE UNCHANGED <<windowCalls, windows>>
    /\ IF show_writes(no_show, output)
          THEN files' = imwrite(files, output[1], image)
          ELSE UNCHANGED files
    /\ effects' = (IF show_displays(no_show) THEN {"imshow"} ELSE {})
                    \cup (IF show_writes(no_show, output) THEN {"imwrite"} ELSE {})
    /\ sleeps' = <<>>
    /\ ret' = None
    /\ raised' = ""
    /\ heap' = [b \in {"in", "out"} |-> IF b = "in" THEN Some(image) ELSE None]
    /\ waited' = 0
    /\ UNCHANGED <<args, pc, config>>

(* ------------------------------- is_quit ------------------------------- *)
is_quit_result_masked(key) == ord_q = key % 256

\* ord("q") == cv2.waitKey(self.delay): the comparison made on the polled key code
is_quit_result(key) == ord_q = key

\* cv2.waitKey(delay) gives up with -1 after `delay` time units when delay is
\* positive; for delay <= 0 it has no timeout and returns only on a key press
waitKey_timed_out(delay_, waited_) == delay_ > 0 /\ waited_ >= delay_

\* is_quit is entered: returns False at once under no_show, else enters waitKey
is_quit ==
    /\ pc = "idle"
    /\ call' = [op |-> "is_quit", args |-> <<>>]
    /\ sleeps' = <<>>
    /\ raised' = ""
    /\ waited' = 0
    /\ IF no_show
          THEN /\ ret' = Some(FALSE)
               /\ effects' = {}
               /\ pc' = "idle"
          ELSE /\ ret' = None
               /\ effects' = {"waitKey"}
               /\ pc' = "waitKey"
    /\ heap' = NoArrays
    /\ UNCHANGED <<args, config, windows, windowCalls, files>>

\* one time unit passes while waitKey blocks
waitKey_tick ==
    /\ pc = "waitKey"
    /\ ~waitKey_timed_out(delay, waited)
    /\ waited < MaxWait
    /\ waited' = waited + 1
    /\ UNCHANGED <<args, pc, config, windows, windowCalls, files, heap,
                   call, effects, sleeps, ret, raised>>

\* a key is pressed while waitKey blocks: waitKey returns its code
waitKey_key(key) ==
    /\ pc = "waitKey"
    /\ pc' = "idle"
    /\ call' = [op |-> "is_quit", args |-> <<key>>]
    /\ ret' = Some(is_quit_result(key))
    /\ UNCHANGED <<args, config, windows, windowCalls, files, heap,
                   effects, sleeps, raised, waited>>

\* no key was pressed within the delay: waitKey returns -1
waitKey_timeout ==
    /\ pc = "waitKey"
    /\ waitKey_timed_out(delay, waited)
    /\ pc' = "idle"
    /\ call' = [op |-> "is_quit", args |-> <<NoKey>>]
    /\ ret' = Some(is_quit_result(NoKey))
    /\ UNCHANGED <<args, config, windows, windowCalls, files, heap,
                   effects, sleeps, raised, waited>>

(* ----------------------------- video_delay ----------------------------- *)
is_video_always(type) == TRUE

\* "VIDEO" in str(streamer.get_type())
is_video(type) == Contains(VIDEO, type)

true_div_raises_never(divisor) == FALSE

\* 1 / streamer.fps() raises ZeroDivisionError for a zero divisor
true_div_raises(divisor) == divisor = 0
true_div(dividend, divisor) == Rat(dividend, divisor)

must_sleep_or_equal(elapsed_time, orig_frame_time) ==
    ~RatLess(orig_frame_time, elapsed_time)

\* elapsed_time < orig_frame_time
must_sleep(elapsed_time, orig_frame_time) == RatLess(elapsed_time, orig_frame_time)

\* orig_frame_time - elapsed_time
sleep_time(elapsed_time, orig_frame_time) == RatSub(orig_frame_time, elapsed_time)

video_delay(elapsed_time, type, fps) ==
    /\ pc = "idle"
    /\ call' = [op |-> "video_delay", args |-> <<elapsed_time, type, fps>>]
    /\ ret' = None
    /\ IF no_show
          THEN /\ effects' = {}
               /\ sleeps' = <<>>
               /\ raised' = ""
          ELSE IF ~is_video(type)
          THEN /\ effects' = {"get_type"}
               /\ sleeps' = <<>>
               /\ raised' = ""
          ELSE IF true_div_raises(fps)
          THEN /\ effects' = {"get_type", "fps"}
               /\ sleeps' = <<>>
               /\ raised' = "ZeroDivisionError"
          ELSE LET orig_frame_time == true_div(1, fps)
               IN /\ raised' = ""
                  /\ IF must_sleep(elapsed_time, orig_frame_time)
                        THEN /\ sleeps' = <<sleep_time(elapsed_time, orig_frame_time)>>
                             /\ effects' = {"get_type", "fps", "sleep"}
                        ELSE /\ sleeps' = <<>>
                             /\ effects' = {"get_type", "fps"}
    /\ heap' = NoArrays
    /\ waited' = 0
    /\ UNCHANGED <<args, pc, config, windows, windowCalls, files>>

(* --------------------------- specifications ---------------------------- *)
Next ==
    \/ Visualizer_init
    \/ \E image \in Images, annotation \in Annotations : draw(image, annotation)
    \/ \E image \in Images : show(image)
    \/ is_quit
    \/ waitKey_tick
    \/ \E key \in PressedKeys : waitKey_key(key)
    \/ waitKey_timeout
    \/ \E elapsed_time \in ElapsedTimes, type \in StreamerTypes, fps \in FpsValues :
           video_delay(elapsed_time, type, fps)

Spec == Init /\ [][Next]_vars

\* time passes and a due timeout fires; nothing obliges the user to press a key
FairSpec == Spec /\ WF_vars(waitKey_tick) /\ WF_vars(waitKey_timeout)

(* ------------------------------- claims -------------------------------- *)
\* what the constructor's arguments fix, written out from the arguments
ArgWindowName == IF args.window_name = None THEN "Window" ELSE args.window_name[1]
ArgDelay == IF args.delay = None THEN 1 ELSE args.delay[1]
OutputConfigured == output # None /\ output[1] \in Paths

\* C1: with no_show=True, show, is_quit and video_delay never touch the window
\* (no imshow, no waitKey), never write the output file, never sleep, and
\* is_quit returns False; whatever the arguments and the order of the calls.
C1_SuppressedCallsDoNothing ==
    (pc # "new" /\ no_show) =>
        /\ pc = "idle"
        /\ \A c \in windowCalls : c.fn # "imshow"
        /\ \A p \in Paths : files[p] \in {None, Some(OldImage)}
        /\ call.op \in {"show", "is_quit", "video_delay"} =>
              /\ effects = {}
              /\ sleeps = <<>>
              /\ raised = ""
              /\ waited = 0
              /\ call.op = "is_quit" => ret = Some(FALSE)
C1_Witness ==
    /\ pc = "idle" /\ no_show /\ OutputConfigured
    /\ call.op = "show"
    /\ files[output[1]] # Some(call.args[1])

\* C2: with no_show=True the constructor makes no namedWindow, resizeWindow or
\* moveWindow call and no window exists for the instance.
C2_NoWindowWhenSuppressed ==
    (pc # "new" /\ no_show) => (windowCalls = {} /\ windows = {})

\* C3: for a streamer whose type string does not contain "VIDEO", video_delay
\* never sleeps and never calls streamer.fps(), whatever elapsed_time is.
C3_NonVideoNeverSleeps ==
    (call.op = "video_delay" /\ call.args[2] \in NonVideoTypes) =>
        /\ sleeps = <<>>
        /\ "sleep" \notin effects
        /\ "fps" \notin effects
        /\ raised = ""
C3_Witness ==
    /\ call.op = "video_delay" /\ ~no_show
    /\ call.args[2] \in NonVideoTypes
    /\ call.args[1].n < 0
    /\ call.args[3] = 0
    /\ effects = {"get_type"}

\* C4: display not suppressed, VIDEO streamer, fps > 0: video_delay sleeps exactly
\* once, for 1/fps - elapsed_time, when elapsed_time < 1/fps, and not at all when
\* elapsed_time >= 1/fps; the duration is strictly positive and, for
\* elapsed_time >= 0, at most 1/fps.
C4_SleepsForTheRemainder ==
    (call.op = "video_delay" /\ ~no_show /\ call.args[2] \in VideoTypes /\ call.args[3] > 0) =>
        LET e == call.args[1]
            f == call.args[3]
        IN IF e.n * f < e.d
              THEN /\ Len(sleeps) = 1
                   /\ sleeps[1].d > 0
                   /\ sleeps[1].n * (f * e.d) = (e.d - e.n * f) * sleeps[1].d
                   /\ sleeps[1].n > 0
                   /\ e.n >= 0 => sleeps[1].n * f <= sleeps[1].d
              ELSE /\ sleeps = <<>>
                   /\ "sleep" \notin effects
C4_Witness ==
    /\ call.op = "video_delay" /\ ~no_show
    /\ call.args[2] \in VideoTypes
    /\ call.args[1].n > 0
    /\ Len(sleeps) = 1

\* C5: display not suppressed: is_quit returns True exactly when the key code of
\* its one keyboard poll is the code of 'q' (113); False for every other code
\* and for the no-key result -1.
C5_QuitIffQ ==
    (pc = "idle" /\ call.op = "is_quit" /\ ~no_show) =>
        /\ effects = {"waitKey"}
        /\ Len(call.args) = 1
        /\ ret = Some(call.args[1] = 113)
C5_Witness ==
    /\ pc = "idle" /\ call.op = "is_quit" /\ ~no_show
    /\ call.args = <<113>>
    /\ ret = Some(TRUE)

C7_OneWindowOneName ==
    /\ Cardinality(windows) <= 1
    /\ \A c \in windowCalls : c.name = ArgWindowName
    /\ pc # "new" => window_name = ArgWindowName
C7_Witness ==
    /\ call.op = "video_delay"
    /\ WinCall("imshow", "Demo", 0, 0) \in windowCalls
    /\ WinCall("namedWindow", "Demo", 0, 0) \in windowCalls
    /\ windows = {"Demo"}

\* C8: display not suppressed, VIDEO streamer, fps = 0: video_delay raises
\* ZeroDivisionError to the caller, does not sleep, and leaves the configuration
\* as the constructor set it.
C8_ZeroFpsRaises ==
    (call.op = "video_delay" /\ ~no_show /\ call.args[2] \in VideoTypes /\ call.args[3] = 0) =>
        /\ raised = "ZeroDivisionError"
        /\ sleeps = <<>>
        /\ "sleep" \notin effects
        /\ pc = "idle"
        /\ config = <<ArgWindowName, args.no_show, ArgDelay, args.output>>
C8_Witness ==
    /\ call.op = "video_delay" /\ ~no_show
    /\ call.args[2] \in VideoTypes /\ call.args[3] = 0
    /\ call.args[1].n = 0
    /\ raised = "ZeroDivisionError"

\* C9 as stated: for every delay the constructor accepts (1 for None, any given
\* integer, 0 included) is_quit blocks for at most that delay.
C9_BlocksAtMostDelay ==
    (call.op = "is_quit" /\ ~no_show) => waited <= ArgDelay
\* C9 as amended: for every positive delay (1 for None, any given positive
\* integer) is_quit blocks for at most that delay and then returns, even if no
\* key is ever pressed.
C9_BlocksAtMostPositiveDelay ==
    /\ []((call.op = "is_quit" /\ ~no_show /\ ArgDelay > 0) => waited <= ArgDelay)
    /\ (pc = "waitKey" /\ ArgDelay > 0) ~> (pc = "idle")
C9_Witness ==
    /\ pc = "idle" /\ call.op = "is_quit" /\ ~no_show
    /\ call.args = <<NoKey>>
    /\ ArgDelay = MaxDelay
    /\ waited = MaxDelay

\* C10: no operation changes window_name, no_show, delay or output once the
\* constructor has returned; and draw leaves the caller's image as it was,
\* returns another array, and makes no window call, file write or sleep.
C10_ConfigurationIsFixed ==
    [][ /\ pc # "new" => config' = config
        /\ call'.op = "draw" =>
              /\ heap'["in"] = Some(call'.args[1])
              /\ ret' # Some("in")
              /\ windows' = windows
              /\ windowCalls' = windowCalls
              /\ files' = files
              /\ sleeps' = <<>>
              /\ effects' = {}
              /\ raised' = "" ]_vars
C10_Witness ==
    /\ call.op = "draw"
    /\ heap["in"] = Some(call.args[1])
    /\ heap["out"] # heap["in"]
    /\ ret = Some("out")

====
